---------------------------- MODULE Spec2Model ----------------------------
(***************************************************************************)
(* The identity and access core of the fastgo API server: the process-wide *)
(* token configuration, the token issuer / verifier, the authentication    *)
(* gate in front of the protected routes, the credential hasher and the    *)
(* public resource identifiers, together with the server start-up that     *)
(* wires them (NewServer, InstallRESTAPI, Run).                            *)
(*                                                                         *)
(* Time is counted in whole seconds.                                       *)
(***************************************************************************)
EXTENDS Integers, Sequences, FiniteSets, TLC

(***************************************************************************)
(* Bounds of the model.                                                    *)
(***************************************************************************)
\* the clock of the server specification runs over 0..MaxNow
MaxNow == 2
\* number of tokens the clients keep from login / refresh responses
MaxIssued == 1
\* number of NewServer calls in one process
MaxServers == 2

(***************************************************************************)
(* Program constants.                                                      *)
(***************************************************************************)
\* time.Hour, in seconds
Hour == 3600
\* known.XUserID, the claim name and context key of the subject
XUserID == "x-user-id"

None == "none"

(***************************************************************************)
(* Token configuration (pkg/token): signing key, claim name, lifetime.     *)
(***************************************************************************)
\* the configuration before init has run: empty key, zero lifetime
UninitConfig == [key |-> "", identityKey |-> "", expiration |-> 0, set |-> FALSE]

\* init(signingKey, claimName, defaultLifetime), first invocation
InitConfig(key, identityKey, expiration) ==
    [key |-> key, identityKey |-> identityKey, expiration |-> expiration, set |-> TRUE]

\* The outcomes of init on a configuration: the first invocation sets it; the
\* effect of a re-invocation is undefined, so it either leaves the
\* configuration or overwrites it.
TokenInit(cfg, key, identityKey, expiration) ==
    IF ~cfg.set
    THEN {InitConfig(key, identityKey, expiration)}
    ELSE {cfg, InitConfig(key, identityKey, expiration)}

(***************************************************************************)
(* Token issuer / verifier (pkg/token).  A token is its claims, whether    *)
(* its structure is well formed, and its signature; the signature of a     *)
(* claim set under a key is the tuple of both.                             *)
(***************************************************************************)
Signature(key, name, sub, iat, exp) == <<key, name, sub, iat, exp>>

\* issue(subjectID, lifetime): claims with issued-at = now, expiry = now + lifetime
IssueFor(cfg, uid, now, lifetime) ==
    [wf |-> TRUE, name |-> cfg.identityKey, sub |-> uid, iat |-> now,
     exp |-> now + lifetime,
     sig |-> Signature(cfg.key, cfg.identityKey, uid, now, now + lifetime)]

\* issue(subjectID) with the configured default lifetime
Issue(cfg, uid, now) == IssueFor(cfg, uid, now, cfg.expiration)

Claims(tok) == [sub |-> tok.sub, iat |-> tok.iat, exp |-> tok.exp]

SignatureValid(cfg, tok) ==
    tok.sig = Signature(cfg.key, tok.name, tok.sub, tok.iat, tok.exp)

\* parse with the expiry checked before the signature
Parse_ExpiryFirst(cfg, tok, now) ==
    IF ~tok.wf THEN [err |-> "MalformedToken", claims |-> None]
    ELSE IF ~(now < tok.exp) THEN [err |-> "Expired", claims |-> None]
    ELSE IF ~SignatureValid(cfg, tok) THEN [err |-> "InvalidSignature", claims |-> None]
    ELSE [err |-> None, claims |-> Claims(tok)]

\* parse(token): deserialize, verify the signature, then check now < expiry
Parse(cfg, tok, now) ==
    IF ~tok.wf THEN [err |-> "MalformedToken", claims |-> None]
    ELSE IF ~SignatureValid(cfg, tok) THEN [err |-> "InvalidSignature", claims |-> None]
    ELSE IF ~(now < tok.exp) THEN [err |-> "Expired", claims |-> None]
    ELSE [err |-> None, claims |-> Claims(tok)]

\* a token whose structure is broken (its other fields left as they were)
Mangle(tok) == [tok EXCEPT !.wf = FALSE]
\* a token with one byte of its signature flipped
FlipSignature(tok) == [tok EXCEPT !.sig = <<"flipped", @>>]
\* a token whose subject was rewritten without the key
Resubject(tok, uid) == [tok EXCEPT !.sub = uid]

(***************************************************************************)
(* The routing engine as NewServer and InstallRESTAPI use it.  A path is   *)
(* the sequence of its segments.  A group carries the handlers its routes  *)
(* inherit; a route keeps the chain combined when it was registered.       *)
(***************************************************************************)
\* gin.New(): no handlers, no routes
NewEngine ==
    [groups |-> [g \in {"engine"} |-> [basePath |-> <<>>, handlers |-> <<>>]],
     routes |-> {}, noRoute |-> <<>>, allNoRoute |-> <<>>]

Stmt(op, g, parent, method, path, hs) ==
    [op |-> op, g |-> g, parent |-> parent, method |-> method, path |-> path, hs |-> hs]

\* the effect of one registration statement on the engine
ExecStmt(e, s) ==
    CASE s.op = "Use" ->
           LET hs == e.groups[s.g].handlers \o s.hs
           IN  [e EXCEPT !.groups[s.g].handlers = hs,
                         !.allNoRoute = IF s.g = "engine" THEN hs \o e.noRoute ELSE @]
      [] s.op = "NoRoute" ->
           [e EXCEPT !.noRoute = s.hs,
                     !.allNoRoute = e.groups["engine"].handlers \o s.hs]
      [] s.op = "Group" ->
           [e EXCEPT !.groups =
               [g \in DOMAIN e.groups \cup {s.g} |->
                   IF g = s.g
                   THEN [basePath |-> e.groups[s.parent].basePath \o s.path,
                         handlers |-> e.groups[s.parent].handlers \o s.hs]
                   ELSE e.groups[g]]]
      [] s.op = "Handle" ->
           [e EXCEPT !.routes = @ \cup
               {[method |-> s.method,
                 path |-> e.groups[s.g].basePath \o s.path,
                 chain |-> e.groups[s.g].handlers \o s.hs]}]

RECURSIVE ExecAll(_, _)
ExecAll(e, stmts) ==
    IF stmts = <<>> THEN e ELSE ExecAll(ExecStmt(e, Head(stmts)), Tail(stmts))

\* mw.Authn(), the authentication gate
authMiddlewares == <<"Authn">>

\* a gate placed after the handler it should guard
refreshTokenHandlers_HandlerFirst == <<"RefreshToken", "Authn">>

\* the refresh route registered without the gate
refreshTokenHandlers_NoGate == <<"RefreshToken">>

\* the handlers of PUT /refresh-token: the gate, then the handler
refreshTokenHandlers == <<"Authn", "RefreshToken">>

\* the users group with the gate added before create-user is registered
userv1Routes_UseFirst ==
    << Stmt("Use", "userv1", None, None, <<>>, authMiddlewares),
       Stmt("Handle", "userv1", None, "POST", <<>>, <<"CreateUser">>),
       Stmt("Handle", "userv1", None, "PUT", <<":userID", "change-password">>,
            <<"ChangePassword">>),
       Stmt("Handle", "userv1", None, "PUT", <<":userID">>, <<"UpdateUser">>),
       Stmt("Handle", "userv1", None, "DELETE", <<":userID">>, <<"DeleteUser">>),
       Stmt("Handle", "userv1", None, "GET", <<":userID">>, <<"GetUser">>),
       Stmt("Handle", "userv1", None, "GET", <<>>, <<"ListUser">>) >>

\* the statements on the users group: create-user, then the gate, then the rest
userv1Routes ==
    << Stmt("Handle", "userv1", None, "POST", <<>>, <<"CreateUser">>),
       Stmt("Use", "userv1", None, None, <<>>, authMiddlewares),
       Stmt("Handle", "userv1", None, "PUT", <<":userID", "change-password">>,
            <<"ChangePassword">>),
       Stmt("Handle", "userv1", None, "PUT", <<":userID">>, <<"UpdateUser">>),
       Stmt("Handle", "userv1", None, "DELETE", <<":userID">>, <<"DeleteUser">>),
       Stmt("Handle", "userv1", None, "GET", <<":userID">>, <<"GetUser">>),
       Stmt("Handle", "userv1", None, "GET", <<>>, <<"ListUser">>) >>

\* the statements on the posts group, created with the gate
postv1Routes ==
    << Stmt("Group", "postv1", "v1", None, <<"posts">>, authMiddlewares),
       Stmt("Handle", "postv1", None, "POST", <<>>, <<"CreatePost">>),
       Stmt("Handle", "postv1", None, "PUT", <<":postID">>, <<"UpdatePost">>),
       Stmt("Handle", "postv1", None, "DELETE", <<>>, <<"DeletePost">>),
       Stmt("Handle", "postv1", None, "GET", <<":postID">>, <<"GetPost">>),
       Stmt("Handle", "postv1", None, "GET", <<>>, <<"ListPost">>) >>

\* the statements of InstallRESTAPI, in order
InstallRESTAPIBody ==
    << Stmt("NoRoute", "engine", None, None, <<>>, <<"NotFound">>),
       Stmt("Handle", "engine", None, "GET", <<"healthz">>, <<"Healthz">>),
       Stmt("Handle", "engine", None, "POST", <<"login">>, <<"Login">>),
       Stmt("Handle", "engine", None, "PUT", <<"refresh-token">>, refreshTokenHandlers),
       Stmt("Group", "v1", "engine", None, <<"v1">>, <<>>),
       Stmt("Group", "userv1", "v1", None, <<"users">>, <<>>) >>
    \o userv1Routes \o postv1Routes

InstallRESTAPI(engine) == ExecAll(engine, InstallRESTAPIBody)

\* the middlewares NewServer installs on the whole engine
mws == <<"Recovery", "NoCache", "Cors", "RequestID">>

PathParams == {":userID", ":postID"}

\* whether a registered path matches a request path
PathMatches(pattern, path) ==
    /\ Len(pattern) = Len(path)
    /\ \A i \in 1..Len(pattern) : pattern[i] \in PathParams \/ pattern[i] = path[i]

\* the handler chain the engine runs for a request: that of the matching
\* route, or the 404 chain
ChainFor(e, method, path) ==
    LET hits == {r \in e.routes : r.method = method /\ PathMatches(r.path, path)}
    IN  IF hits = {} THEN e.allNoRoute ELSE (CHOOSE r \in hits : TRUE).chain

(***************************************************************************)
(* Credential hasher (pkg/auth) over bcrypt.  A string is the sequence of  *)
(* its bytes.  bcrypt feeds the Blowfish key schedule with the password    *)
(* and a trailing NUL, repeated cyclically over the 18 four-byte words of  *)
(* the schedule.  A digest is the text "$", cost, salt, hash; the hash is  *)
(* taken to be one-to-one in (cost, salt, key stream), so the key stream   *)
(* stands for it.                                                          *)
(***************************************************************************)
KeyScheduleBytes == 18 * 4

\* bcrypt.DefaultCost
DefaultCost == 10

\* the text that opens a digest: the byte '$'
DigestPrefix == <<36>>

\* the key stream the schedule reads from a password
ExpandKey(password) ==
    LET ckey == password \o <<0>>
    IN  [i \in 1..KeyScheduleBytes |-> ckey[((i - 1) % Len(ckey)) + 1]]

\* bcrypt.GenerateFromPassword(password, cost) with the salt it drew
GenerateFromPassword(password, cost, salt) ==
    DigestPrefix \o <<cost, salt>> \o ExpandKey(password)

\* bcrypt.CompareHashAndPassword(hashedPassword, password): nil on a match
CompareHashAndPassword(hashedPassword, password) ==
    IF Len(hashedPassword) < 3 + KeyScheduleBytes THEN "ErrHashTooShort"
    ELSE IF <<hashedPassword[1]>> # DigestPrefix THEN "InvalidHashPrefixError"
    ELSE IF GenerateFromPassword(password, hashedPassword[2], hashedPassword[3])
              = hashedPassword
         THEN "nil" ELSE "ErrMismatchedHashAndPassword"

\* Encrypt(source): the bcrypt digest of source at the default cost
Encrypt(source, salt) == GenerateFromPassword(source, DefaultCost, salt)

\* Compare(hashedPassword, password)
Compare(hashedPassword, password) == CompareHashAndPassword(hashedPassword, password)

\* the salts bcrypt draws
BcryptSalts == {201, 202}

(***************************************************************************)
(* Public resource identifiers (internal/pkg/rid).  A string is the        *)
(* sequence of its pieces: the type prefix, "-", and the characters of the *)
(* code.  Counters and salts stay below 2^31 / 17, so the 64-bit products  *)
(* of the encoder do not wrap within the bounds; its byte arithmetic is    *)
(* kept modulo 2^8.                                                        *)
(***************************************************************************)
\* const defaultABC
defaultABC ==
    << "a", "b", "c", "e", "d", "f", "g", "h", "i", "j", "k", "l", "m",
       "n", "o", "p", "q", "r", "s", "t", "u", "v", "w", "x", "y", "z",
       "A", "B", "C", "D", "E", "F", "G", "H", "I", "J", "K", "L", "M",
       "N", "O", "P", "Q", "R", "S", "T", "U", "V", "W", "X", "Y", "Z",
       "0", "1", "2", "3", "4", "5", "6", "7", "8", "9" >>

\* the resource types
UserID == "user"
PostID == "post"

\* id.WithCodeLen(6)
CodeLen == 6

\* the encoder's multiplier of the counter and its step of the permutation
CodeN1 == 17
CodeN2 == 5

Byte(n) == n % 256

\* the l low digits of n in base b, lowest first
RECURSIVE Digits(_, _, _)
Digits(n, b, l) == IF l = 0 THEN <<>> ELSE <<n % b>> \o Digits(n \div b, b, l - 1)

\* id.NewCode(counter, chars, l, salt): the counter is enlarged and salted,
\* its base-|chars| digits are diffused by the lowest digit, then permuted
NewCode(counter, chars, l, salt) ==
    LET b == Len(chars)
        d == Digits(counter * CodeN1 + salt, b, l)
        slIdx == [i \in 1..l |->
                     Byte(Byte(d[i]) + Byte((i - 1) * Byte(d[1]))) % Byte(b)]
    IN  [i \in 1..l |-> chars[slIdx[(Byte((i - 1) * CodeN2) % Byte(l)) + 1] + 1]]

\* New without the separator between prefix and code
New_NoDash(rid, counter, salt) ==
    <<rid>> \o NewCode(counter, defaultABC, CodeLen, salt)

\* rid.New(counter): the prefix, "-", and the code
New(rid, counter, salt) ==
    <<rid, "-">> \o NewCode(counter, defaultABC, CodeLen, salt)

\* the values Salt() has in a process
Salts == {0, 123567369, 1000000007}

\* A counter is a uint64; counters beyond the range of the integers above are
\* written as limbs, lowest first, in base |defaultABC|^3, so that two limbs
\* hold the CodeLen base-|defaultABC| digits the code is made of.
LimbDigits == CodeLen \div 2
Limb == Len(defaultABC) * Len(defaultABC) * Len(defaultABC)

\* the limbs of a small integer
RECURSIVE ToLimbs(_, _)
ToLimbs(n, k) == IF k = 0 THEN <<>> ELSE <<n % Limb>> \o ToLimbs(n \div Limb, k - 1)

\* counter * n1 + salt on limbs, with carry
RECURSIVE MulAdd(_, _, _, _)
MulAdd(c, n1, s, carry) ==
    IF c = <<>> THEN <<>>
    ELSE LET t == c[1] * n1 + s[1] + carry
         IN  <<t % Limb>> \o MulAdd(Tail(c), n1, Tail(s), t \div Limb)

\* id.NewCode on a counter given by its limbs: the same enlarging, salting,
\* diffusion and permutation as NewCode, on the l lowest digits
NewCodeWide(counter, chars, l, salt) ==
    LET b == Len(chars)
        e == MulAdd(counter, CodeN1, ToLimbs(salt, Len(counter)), 0)
        d == Digits(e[1], b, LimbDigits) \o Digits(e[2], b, l - LimbDigits)
        slIdx == [i \in 1..l |->
                     Byte(Byte(d[i]) + Byte((i - 1) * Byte(d[1]))) % Byte(b)]
    IN  [i \in 1..l |-> chars[slIdx[(Byte((i - 1) * CodeN2) % Byte(l)) + 1] + 1]]

\* rid.New(counter) on a counter given by its limbs
NewWide(rid, counter, salt) ==
    <<rid, "-">> \o NewCodeWide(counter, defaultABC, CodeLen, salt)

(***************************************************************************)
(* Inputs of the server specification.                                     *)
(***************************************************************************)
\* a default lifetime of two minutes
DefaultExpiration_Minutes == 2 * 60

\* NewServerOptions: Expiration is 2 * time.Hour unless a flag overrides it
DefaultExpiration == 2 * Hour
\* a lifetime set by flag, short enough to elapse within MaxNow
ShortExpiration == 1

\* the Config values NewServer is called with
Configs ==
    { [JWTKey |-> "Rtg8BPKNEf2mB4mgvKONGPZZ", Expiration |-> DefaultExpiration],
      [JWTKey |-> "x9Kq2LmPw7", Expiration |-> ShortExpiration] }

\* the credential records the store answers login with
PwAlice == <<97, 108, 105, 99, 101, 49, 50, 51>>
PwBob == <<98, 111, 98, 98, 111, 98, 52, 53>>
StoredUsers ==
    { [username |-> "alice", userID |-> "user-w6irkg",
       password |-> Encrypt(PwAlice, 201)],
      [username |-> "bob", userID |-> "user-w6irkh",
       password |-> Encrypt(PwBob, 202)] }
LoginNames == {"alice", "mallory"}
LoginPasswords == {PwAlice, PwBob}

\* the requests the clients send: method and path
Targets ==
    { <<"GET", <<"healthz">>>>,
      <<"POST", <<"login">>>>,
      <<"PUT", <<"refresh-token">>>>,
      <<"POST", <<"v1", "users">>>>,
      <<"GET", <<"v1", "users", "user-w6irkg">>>>,
      <<"POST", <<"v1", "posts">>>>,
      <<"GET", <<"nowhere">>>> }

\* tokens made without the server
ForgedTokens ==
    { Mangle(IssueFor(InitConfig("", "", 0), "", 0, 0)),
      IssueFor(InitConfig("attacker-key", XUserID, 0), "user-w6irkg", 0, DefaultExpiration) }

\* what a client can put in the Authorization header, given the tokens it holds
HeaderChoices(held) ==
    {<<>>} \cup {<<t>> : t \in ForgedTokens}
           \cup {<<t>> : t \in held}
           \cup {<<Mangle(t)>> : t \in held}
           \cup {<<FlipSignature(t)>> : t \in held}
           \cup {<<Resubject(t, "user-w6irkh")>> : t \in {h \in held : h.sub # "user-w6irkh"}}

Middlewares == {"Recovery", "NoCache", "Cors", "RequestID"}

\* NewServer with the token configuration set only after the routes exist
NewServerBody_InitLate ==
    <<"gin.New", "engine.Use", "NewDB", "InstallRESTAPI", "token.Init", "return">>

\* the statements of NewServer, in order
NewServerBody ==
    <<"token.Init", "gin.New", "engine.Use", "NewDB", "InstallRESTAPI", "return">>

(***************************************************************************)
(* Server options (cmd/fg-apiserver/app/options).  An address is <<>> for  *)
(* the empty string, <<host, port>> for "host:port" and <<text>> for a     *)
(* text net.SplitHostPort cannot split; the port is the integer            *)
(* strconv.Atoi reads.  A key is a string; KeyRunes gives its characters as *)
(* code points, and len() of a Go string counts the bytes of its UTF-8     *)
(* encoding.                                                               *)
(***************************************************************************)
\* the keys the options are given: the empty default, keys of 3, 5 and 6
\* ASCII characters, a key of two characters of three bytes each, and a
\* long key
KeyRunes ==
    ("" :> <<>>)
    @@ ("k3y" :> <<107, 51, 121>>)
    @@ ("s3cr3" :> <<115, 51, 99, 114, 51>>)
    @@ ("s3cr3t" :> <<115, 51, 99, 114, 51, 116>>)
    @@ ("U+5BC6 U+94A5" :> <<23494, 38053>>)
    @@ ("Rtg8BPKNEf2mB4mgvKONGPZZ" :>
          <<82, 116, 103, 56, 66, 80, 75, 78, 69, 102, 50, 109,
            66, 52, 109, 103, 118, 75, 79, 78, 71, 80, 90, 90>>)

JWTKeys == DOMAIN KeyRunes

\* the number of bytes UTF-8 encodes a code point with
Utf8Width(r) ==
    IF r < 128 THEN 1 ELSE IF r < 2048 THEN 2 ELSE IF r < 65536 THEN 3 ELSE 4

RECURSIVE ByteLen(_)
ByteLen(runes) == IF runes = <<>> THEN 0 ELSE Utf8Width(Head(runes)) + ByteLen(Tail(runes))

\* len(s) of a Go string: its bytes
GoLen(s) == ByteLen(KeyRunes[s])

\* the characters of a string
RuneCount(s) == Len(KeyRunes[s])

\* genericoptions.NewMySQLOptions()
NewMySQLOptions ==
    [Addr |-> <<"127.0.0.1", 3306>>, Username |-> "onex", Password |-> "onex(#)666",
     Database |-> "onex", MaxIdleConnections |-> 100, MaxOpenConnections |-> 100,
     MaxConnectionLifeTime |-> 10]

\* NewServerOptions(): JWTKey is left at its zero value
NewServerOptions ==
    [MYSQLOptions |-> NewMySQLOptions, Addr |-> <<"0.0.0.0", 6666>>,
     JWTKey |-> "", Expiration |-> DefaultExpiration]

\* net.SplitHostPort and strconv.Atoi on an address
SplitFails(addr) == Len(addr) # 2
PortFails(addr) == addr[2] < 1 \/ addr[2] > 65535

\* Validate without the check of the key
Validate_NoKeyCheck(o) ==
    LET my == o.MYSQLOptions
    IN  IF my.Addr = <<>> THEN "MYSQL server address cannot be empty"
        ELSE IF SplitFails(my.Addr) THEN "invalid MySQL address format"
        ELSE IF PortFails(my.Addr) THEN "invalid MySQL port"
        ELSE IF my.Addr[1] = "" THEN "MYSQL hostname cannot be empty"
        ELSE IF my.Username = "" THEN "MySQL username cannot be empty"
        ELSE IF my.Password = "" THEN "MySQL password cannot be empty"
        ELSE IF my.Database = "" THEN "MySQL database name cannot be empty"
        ELSE IF my.MaxIdleConnections <= 0
             THEN "MySQL max idle connections must be greater than 0"
        ELSE IF my.MaxOpenConnections <= 0
             THEN "MySQL max open connections must be greater than 0"
        ELSE IF my.MaxIdleConnections > my.MaxOpenConnections
             THEN "MySQL max idle connections cannot be greater than max open connections"
        ELSE IF my.MaxConnectionLifeTime <= 0
             THEN "MySQL max connection lifetime must be greater than 0"
        ELSE IF o.Addr = <<>> THEN "server address cannot be empty"
        ELSE IF SplitFails(o.Addr) THEN "invalid server address format"
        ELSE IF PortFails(o.Addr) THEN "invalid server port"
        ELSE "nil"

\* ServerOptions.Validate(): the first failing check, or nil
Validate(o) ==
    LET my == o.MYSQLOptions
    IN  IF my.Addr = <<>> THEN "MYSQL server address cannot be empty"
        ELSE IF SplitFails(my.Addr) THEN "invalid MySQL address format"
        ELSE IF PortFails(my.Addr) THEN "invalid MySQL port"
        ELSE IF my.Addr[1] = "" THEN "MYSQL hostname cannot be empty"
        ELSE IF my.Username = "" THEN "MySQL username cannot be empty"
        ELSE IF my.Password = "" THEN "MySQL password cannot be empty"
        ELSE IF my.Database = "" THEN "MySQL database name cannot be empty"
        ELSE IF my.MaxIdleConnections <= 0
             THEN "MySQL max idle connections must be greater than 0"
        ELSE IF my.MaxOpenConnections <= 0
             THEN "MySQL max open connections must be greater than 0"
        ELSE IF my.MaxIdleConnections > my.MaxOpenConnections
             THEN "MySQL max idle connections cannot be greater than max open connections"
        ELSE IF my.MaxConnectionLifeTime <= 0
             THEN "MySQL max connection lifetime must be greater than 0"
        ELSE IF o.Addr = <<>> THEN "server address cannot be empty"
        ELSE IF SplitFails(o.Addr) THEN "invalid server address format"
        ELSE IF PortFails(o.Addr) THEN "invalid server port"
        ELSE IF GoLen(o.JWTKey) < 6 THEN "JWTKey must be at least 6 characters long"
        ELSE "nil"

\* ServerOptions.Config(): the Config NewServer reads
Config(o) == [JWTKey |-> o.JWTKey, Expiration |-> o.Expiration]

\* the options after flags and the configuration file are read: the defaults
\* with the key, the lifetime and the addresses overridden
ServerOptionsSet ==
    { [NewServerOptions EXCEPT !.JWTKey = k, !.Expiration = e, !.Addr = a,
                               !.MYSQLOptions.Addr = m] :
        k \in JWTKeys,
        e \in {DefaultExpiration, ShortExpiration},
        a \in {<<"0.0.0.0", 6666>>, <<"0.0.0.0">>},
        m \in {<<"127.0.0.1", 3306>>, <<>>} }

\* no start-up in progress
NoOpts == [pc |-> "none", o |-> NewServerOptions, err |-> None]

IdleReq ==
    [st |-> "idle", method |-> None, path |-> <<>>, header |-> <<>>, chain |-> <<>>,
     idx |-> 0, ctx |-> None, parses |-> 0, gate |-> None, gateAt |-> 0,
     ran |-> None, ranCtx |-> None, ranAt |-> 0, status |-> None, out |-> <<>>]

\* the request in flight; the state it shares with the rest of the process
\* is the token configuration, the clock and the engine
Requests == {"r1"}

VARIABLES
    now,      \* the clock, in seconds
    config,   \* the token configuration of the process
    boot,     \* the NewServer call in progress: statement, Config, engine
    calls,    \* number of NewServer calls made
    server,   \* the engine of the Server the process runs, <<>> before it exists
    running,  \* whether Run has started ListenAndServe
    served,   \* whether a request has been accepted
    req,      \* the requests in flight
    issued,   \* the tokens the clients hold
    tk,       \* a token issued, presented and parsed
    pw,       \* a password hashed and compared
    users,    \* the users table of the store
    posts,    \* the posts table of the store
    pcr,      \* the create-post call in progress
    opts,     \* the start-up of the process: its options and how far it got
    cr,       \* the create-user call in progress
    rc        \* the resource identifiers made

vars == <<now, config, boot, calls, server, running, served, req, issued,
          opts, tk, pw, users, posts, pcr, cr, rc>>

NoBoot == [pc |-> 0, cfg |-> <<>>, engine |-> <<>>]

\* the state of the server proper, and the state the other specifications use
srv == <<boot, calls, server, running, served, req, issued, opts>>
pure == <<tk, pw, users, posts, pcr, cr, rc>>

IdleTk == [uid |-> None, at |-> 0, life |-> 0, override |-> FALSE, tok |-> <<>>,
           shown |-> <<>>, res |-> <<>>, resAt |-> 0]
IdlePw == [src |-> <<>>, digest |-> <<>>, cand |-> <<>>, result |-> None]
NoUser == [ID |-> 0, UserID |-> <<>>, Username |-> "", Password |-> <<>>]
IdleCr == [pc |-> "idle", seq |-> 1, m |-> NoUser, plain |-> <<>>, err |-> None,
           saves |-> 0]
NoPost == [ID |-> 0, PostID |-> <<>>, Title |-> ""]
IdlePcr == [pc |-> "idle", seq |-> 1, m |-> NoPost, err |-> None, saves |-> 0]
IdleRc == [salt |-> 0, made |-> <<>>]

PureIdle ==
    /\ tk = IdleTk
    /\ pw = IdlePw
    /\ users = {}
    /\ posts = {}
    /\ pcr = IdlePcr
    /\ cr = IdleCr
    /\ rc = IdleRc

SrvIdle ==
    /\ opts = NoOpts
    /\ boot = NoBoot
    /\ calls = 0
    /\ server = <<>>
    /\ running = FALSE
    /\ served = FALSE
    /\ req = [r \in Requests |-> IdleReq]
    /\ issued = {}

Init ==
    /\ now = 0
    /\ config = UninitConfig
    /\ SrvIdle
    /\ PureIdle

\* the clock advances
Tick ==
    /\ now < MaxNow
    /\ now' = now + 1
    /\ UNCHANGED <<pure, opts, config, boot, calls, server, running, served, req, issued>>

\* cfg.NewServer() is called
CallNewServer ==
    /\ boot.pc = 0
    /\ calls < MaxServers
    /\ \E cfg \in Configs : boot' = [pc |-> 1, cfg |-> <<cfg>>, engine |-> <<>>]
    /\ calls' = calls + 1
    /\ UNCHANGED <<pure, opts, now, config, server, running, served, req, issued>>

\* the next statement of NewServer
NewServerStep ==
    /\ boot.pc \in 1..Len(NewServerBody)
    /\ LET stmt == NewServerBody[boot.pc]
           cfg == boot.cfg[1]
           next == [boot EXCEPT !.pc = @ + 1]
       IN  CASE stmt = "token.Init" ->
                  /\ config' \in TokenInit(config, cfg.JWTKey, XUserID, cfg.Expiration)
                  /\ boot' = next
                  /\ UNCHANGED server
             [] stmt = "gin.New" ->
                  /\ boot' = [next EXCEPT !.engine = <<NewEngine>>]
                  /\ UNCHANGED <<config, server>>
             [] stmt = "engine.Use" ->
                  /\ boot' = [next EXCEPT !.engine =
                         <<ExecStmt(boot.engine[1], Stmt("Use", "engine", None, None, <<>>, mws))>>]
                  /\ UNCHANGED <<config, server>>
             [] stmt = "NewDB" ->
                  /\ \E ok \in BOOLEAN : boot' = IF ok THEN next ELSE NoBoot
                  /\ UNCHANGED <<config, server>>
             [] stmt = "InstallRESTAPI" ->
                  /\ boot' = [next EXCEPT !.engine = <<InstallRESTAPI(boot.engine[1])>>]
                  /\ UNCHANGED <<config, server>>
             [] stmt = "return" ->
                  /\ boot' = NoBoot
                  /\ server' = IF server = <<>> THEN boot.engine ELSE server
                  /\ UNCHANGED config
    /\ UNCHANGED <<pure, opts, now, calls, running, served, req, issued>>

\* s.Run(): ListenAndServe starts on the server's engine
Run ==
    /\ server # <<>>
    /\ ~running
    /\ running' = TRUE
    /\ UNCHANGED <<pure, opts, now, config, boot, calls, server, served, req, issued>>

\* a request arrives and the engine picks its handler chain
Arrive(r) ==
    /\ running
    /\ req[r].st = "idle"
    /\ \E t \in Targets, h \in HeaderChoices(issued) :
          req' = [req EXCEPT ![r] =
                     [IdleReq EXCEPT !.st = "run", !.method = t[1], !.path = t[2],
                                     !.header = h, !.idx = 1,
                                     !.chain = ChainFor(server[1], t[1], t[2])]]
    /\ served' = TRUE
    /\ UNCHANGED <<pure, opts, now, config, boot, calls, server, running, issued>>

\* the request moves past the handler it just ran
Advance(q) ==
    IF q.idx >= Len(q.chain) THEN [q EXCEPT !.st = "done"] ELSE [q EXCEPT !.idx = @ + 1]

\* the request moves past the pass-through middlewares that follow one another
RECURSIVE SkipMiddlewares(_)
SkipMiddlewares(q) ==
    IF q.st = "run" /\ q.chain[q.idx] \in Middlewares
    THEN SkipMiddlewares(Advance(q))
    ELSE q

\* the pass-through middlewares of the chain run, one after the other
Middleware(r) ==
    /\ req[r].st = "run"
    /\ req[r].chain[req[r].idx] \in Middlewares
    /\ req' = [req EXCEPT ![r] = SkipMiddlewares(@)]
    /\ UNCHANGED <<pure, opts, now, config, boot, calls, server, running, served, issued>>

\* what the authentication gate does with a request
AuthnOutcome(q, cfg, t) ==
    IF q.header = <<>>
    THEN [q EXCEPT !.st = "done", !.gate = "reject", !.gateAt = t,
                   !.status = "Unauthorized"]
    ELSE LET res == Parse(cfg, q.header[1], t)
             p == [q EXCEPT !.parses = @ + 1, !.gateAt = t]
         IN  IF res.err = None
             THEN Advance([p EXCEPT !.gate = "pass", !.ctx = res.claims.sub])
             ELSE [p EXCEPT !.st = "done", !.gate = "reject", !.status = "Unauthorized"]

\* mw.Authn(): the authentication gate runs
Authn(r) ==
    /\ req[r].st = "run"
    /\ req[r].chain[req[r].idx] = "Authn"
    /\ req' = [req EXCEPT ![r] = AuthnOutcome(@, config, now)]
    /\ UNCHANGED <<pure, opts, now, config, boot, calls, server, running, served, issued>>

\* handler.Login: verify the password against the stored digest, then issue
Login(r) ==
    /\ req[r].st = "run"
    /\ req[r].chain[req[r].idx] = "Login"
    /\ \E name \in LoginNames, password \in LoginPasswords :
          LET found == {u \in StoredUsers : u.username = name}
              ok == \E u \in found : Compare(u.password, password) = "nil"
              q == [req[r] EXCEPT !.ran = "Login", !.ranCtx = req[r].ctx, !.ranAt = now]
          IN  req' = [req EXCEPT ![r] =
                  IF ok
                  THEN Advance([q EXCEPT !.status = "OK",
                          !.out = <<Issue(config, (CHOOSE u \in found : TRUE).userID, now)>>])
                  ELSE Advance([q EXCEPT !.status = "Unauthorized"])]
    /\ UNCHANGED <<pure, opts, now, config, boot, calls, server, running, served, issued>>

\* handler.RefreshToken: re-issue for the subject found in the request context
RefreshToken(r) ==
    /\ req[r].st = "run"
    /\ req[r].chain[req[r].idx] = "RefreshToken"
    /\ req' = [req EXCEPT ![r] =
           Advance([req[r] EXCEPT !.ran = "RefreshToken", !.ranCtx = req[r].ctx,
                                  !.ranAt = now, !.status = "OK",
                                  !.out = <<Issue(config, req[r].ctx, now)>>])]
    /\ UNCHANGED <<pure, opts, now, config, boot, calls, server, running, served, issued>>

\* any other handler: it answers the request
Handle(r) ==
    /\ req[r].st = "run"
    /\ LET h == req[r].chain[req[r].idx]
       IN  /\ h \notin Middlewares \cup {"Authn", "Login", "RefreshToken"}
           /\ req' = [req EXCEPT ![r] =
                  Advance([req[r] EXCEPT !.ran = h, !.ranCtx = req[r].ctx, !.ranAt = now,
                                    !.status = IF h = "NotFound" THEN "NotFound" ELSE "OK"])]
    /\ UNCHANGED <<pure, opts, now, config, boot, calls, server, running, served, issued>>

\* the response reaches the client, which may keep the token it carries
Respond(r) ==
    /\ req[r].st = "done"
    /\ req' = [req EXCEPT ![r] = IdleReq]
    /\ \/ issued' = issued
       \/ /\ req[r].out # <<>>
          /\ \E drop \in SUBSET issued :
                /\ Cardinality((issued \ drop) \cup {req[r].out[1]}) <= MaxIssued
                /\ issued' = (issued \ drop) \cup {req[r].out[1]}
    /\ UNCHANGED <<pure, opts, now, config, boot, calls, server, running, served>>

Next ==
    \/ Tick
    \/ CallNewServer
    \/ NewServerStep
    \/ Run
    \/ \E r \in Requests : Arrive(r)
    \/ \E r \in Requests : Middleware(r)
    \/ \E r \in Requests : Authn(r)
    \/ \E r \in Requests : Login(r)
    \/ \E r \in Requests : RefreshToken(r)
    \/ \E r \in Requests : Handle(r)
    \/ \E r \in Requests : Respond(r)

Spec == Init /\ [][Next]_vars

(***************************************************************************)
(* The start-up specification: the process reads its options, validates    *)
(* them, and only when Validate returns nil builds the Config, calls       *)
(* NewServer on it once and runs the server.                               *)
(***************************************************************************)
StartInit ==
    /\ now = 0
    /\ config = UninitConfig
    /\ boot = NoBoot /\ calls = 0 /\ server = <<>>
    /\ running = FALSE /\ served = FALSE
    /\ req = [r \in Requests |-> IdleReq]
    /\ issued = {}
    /\ PureIdle
    /\ \E o \in ServerOptionsSet : opts = [pc |-> "validate", o |-> o, err |-> None]

\* opts.Validate(): an error ends the start-up
StartValidate ==
    /\ opts.pc = "validate"
    /\ LET err == Validate(opts.o)
       IN  opts' = [opts EXCEPT !.err = err,
                                !.pc = IF err = "nil" THEN "config" ELSE "exit"]
    /\ UNCHANGED <<pure, now, config, boot, calls, server, running, served, req, issued>>

\* opts.Config(), then NewServer is called on the result
StartConfig ==
    /\ opts.pc = "config"
    /\ boot.pc = 0
    /\ boot' = [pc |-> 1, cfg |-> <<Config(opts.o)>>, engine |-> <<>>]
    /\ calls' = calls + 1
    /\ opts' = [opts EXCEPT !.pc = "started"]
    /\ UNCHANGED <<pure, now, config, server, running, served, req, issued>>

StartNext ==
    \/ StartValidate
    \/ StartConfig
    \/ Tick
    \/ NewServerStep
    \/ Run
    \/ \E r \in Requests : Arrive(r)
    \/ \E r \in Requests : Middleware(r)
    \/ \E r \in Requests : Authn(r)
    \/ \E r \in Requests : Login(r)
    \/ \E r \in Requests : RefreshToken(r)
    \/ \E r \in Requests : Handle(r)
    \/ \E r \in Requests : Respond(r)

SpecStart == StartInit /\ [][StartNext]_vars

(***************************************************************************)
(* The token specification: under the configuration NewServer sets, one    *)
(* token is issued, the clock moves on, and the token, or an altered copy, *)
(* is parsed.                                                              *)
(***************************************************************************)
Subjects == {"user-w6irkg", "user-w6irkh"}

\* lifetimes passed to issue in place of the default
LifetimeOverrides == {ShortExpiration, Hour}

\* the times since issue at which the token is parsed
ElapsedChoices(life) ==
    {0, 1, life - 1, life, life + 1, 2 * Hour - 1, 2 * Hour, 2 * Hour + 1}

\* what a client can present in place of a token it was issued
Variants(tok) ==
    { tok, Mangle(tok), FlipSignature(tok), Mangle(FlipSignature(tok)),
      Resubject(tok, "user-w6irkz"),
      [tok EXCEPT !.sig = Signature("attacker-key", tok.name, tok.sub, tok.iat, tok.exp)] }

TokInit ==
    /\ now = 0
    /\ \E c \in Configs : config \in TokenInit(UninitConfig, c.JWTKey, XUserID, c.Expiration)
    /\ SrvIdle
    /\ PureIdle

\* time passes before the token is issued
TokWait ==
    /\ tk.tok = <<>>
    /\ now < MaxNow
    /\ now' = now + 1
    /\ UNCHANGED <<config, srv, pure>>

\* issue(uid) with the default lifetime
TokIssue ==
    /\ tk.tok = <<>>
    /\ \E uid \in Subjects :
          tk' = [tk EXCEPT !.uid = uid, !.at = now, !.life = config.expiration,
                           !.tok = <<Issue(config, uid, now)>>]
    /\ UNCHANGED <<now, config, srv, pw, users, posts, pcr, cr, rc>>

\* issue(uid, lifetime) with a lifetime override
TokIssueFor ==
    /\ tk.tok = <<>>
    /\ \E uid \in Subjects, life \in LifetimeOverrides :
          tk' = [tk EXCEPT !.uid = uid, !.at = now, !.life = life, !.override = TRUE,
                           !.tok = <<IssueFor(config, uid, now, life)>>]
    /\ UNCHANGED <<now, config, srv, pw, users, posts, pcr, cr, rc>>

\* time passes after the token was issued
TokElapse ==
    /\ tk.tok # <<>>
    /\ tk.res = <<>>
    /\ \E e \in ElapsedChoices(tk.life) :
          /\ tk.at + e > now
          /\ now' = tk.at + e
    /\ UNCHANGED <<config, srv, pure>>

\* parse(token) on what the client presents
TokParse ==
    /\ tk.tok # <<>>
    /\ tk.res = <<>>
    /\ \E v \in Variants(tk.tok[1]) :
          tk' = [tk EXCEPT !.shown = <<v>>, !.res = <<Parse(config, v, now)>>, !.resAt = now]
    /\ UNCHANGED <<now, config, srv, pw, users, posts, pcr, cr, rc>>

TokNext == TokWait \/ TokIssue \/ TokIssueFor \/ TokElapse \/ TokParse

SpecToken == TokInit /\ [][TokNext]_vars

(***************************************************************************)
(* The identifier specification: for the salt of the process, New is       *)
(* called for resource types and counters.                                 *)
(***************************************************************************)
\* New is called for the counters 0..MaxCounter
MaxCounter == 45
\* number of calls kept side by side
MaxCalls == 2

RidInit ==
    /\ now = 0
    /\ config = UninitConfig
    /\ SrvIdle
    /\ tk = IdleTk /\ pw = IdlePw /\ users = {} /\ posts = {} /\ pcr = IdlePcr /\ cr = IdleCr
    /\ \E salt \in Salts : rc = [salt |-> salt, made |-> <<>>]

\* rid.New(counter) is called
RidNew ==
    /\ Len(rc.made) < MaxCalls
    /\ \E t \in {UserID, PostID}, c \in 0..MaxCounter :
          rc' = [rc EXCEPT !.made =
                    Append(@, [type |-> t, counter |-> c, id |-> New(t, c, rc.salt)])]
    /\ UNCHANGED <<now, config, srv, tk, pw, users, posts, pcr, cr>>

\* the results are dropped
RidForget ==
    /\ rc.made # <<>>
    /\ rc' = [rc EXCEPT !.made = <<>>]
    /\ UNCHANGED <<now, config, srv, tk, pw, users, posts, pcr, cr>>

RidNext == RidNew \/ RidForget

SpecRid == RidInit /\ [][RidNext]_vars

(***************************************************************************)
(* The wide identifier specification: New is called for counters of the    *)
(* whole uint64 range the store hands out, written as limbs.               *)
(***************************************************************************)
\* the lowest limb of a counter runs over 0..MaxLow
MaxLow == 3
\* the limb above the digits of the code runs over 0..MaxHigh
MaxHigh == 1

\* the counters New is called for: c = low + high * |defaultABC|^6
WideCounters == { <<lo, 0, hi>> : lo \in 0..MaxLow, hi \in 0..MaxHigh }

WideInit ==
    /\ now = 0
    /\ config = UninitConfig
    /\ SrvIdle
    /\ tk = IdleTk /\ pw = IdlePw /\ users = {} /\ posts = {} /\ pcr = IdlePcr /\ cr = IdleCr
    /\ \E salt \in Salts : rc = [salt |-> salt, made |-> <<>>]

\* rid.New(counter) is called
WideNew ==
    /\ Len(rc.made) < MaxCalls
    /\ \E t \in {UserID, PostID}, c \in WideCounters :
          rc' = [rc EXCEPT !.made =
                    Append(@, [type |-> t, counter |-> c, id |-> NewWide(t, c, rc.salt)])]
    /\ UNCHANGED <<now, config, srv, tk, pw, users, posts, pcr, cr>>

\* the results are dropped
WideForget ==
    /\ rc.made # <<>>
    /\ rc' = [rc EXCEPT !.made = <<>>]
    /\ UNCHANGED <<now, config, srv, tk, pw, users, posts, pcr, cr>>

WideNext == WideNew \/ WideForget

SpecWide == WideInit /\ [][WideNext]_vars

(***************************************************************************)
(* The hasher specification: a password is hashed, then a candidate is     *)
(* compared with the digest.                                               *)
(***************************************************************************)
Passwords ==
    { PwAlice, PwBob, PwAlice \o <<0>> \o PwAlice, PwAlice \o <<0>>,
      <<97>>, <<97, 0, 97>>, <<98, 111, 98>>, <<>> }

AuthInit ==
    /\ now = 0
    /\ config = UninitConfig
    /\ SrvIdle
    /\ tk = IdleTk /\ users = {} /\ posts = {} /\ pcr = IdlePcr /\ cr = IdleCr /\ rc = IdleRc
    /\ \E p \in Passwords : pw = [IdlePw EXCEPT !.src = p]

\* Encrypt(source)
AuthEncrypt ==
    /\ pw.digest = <<>>
    /\ \E salt \in BcryptSalts : pw' = [pw EXCEPT !.digest = <<Encrypt(pw.src, salt)>>]
    /\ UNCHANGED <<now, config, srv, tk, users, posts, pcr, cr, rc>>

\* Compare(hashedPassword, password)
AuthCompare ==
    /\ pw.digest # <<>>
    /\ pw.result = None
    /\ \E p \in Passwords :
          pw' = [pw EXCEPT !.cand = <<p>>, !.result = Compare(pw.digest[1], p)]
    /\ UNCHANGED <<now, config, srv, tk, users, posts, pcr, cr, rc>>

AuthNext == AuthEncrypt \/ AuthCompare

SpecAuth == AuthInit /\ [][AuthNext]_vars

(***************************************************************************)
(* The create-user specification: a request is validated, and the store    *)
(* creates the record in one transaction: BeforeCreate, the insert that    *)
(* allocates the numeric ID, AfterCreate with its second write.            *)
(***************************************************************************)
\* number of records the table allocates IDs for
MaxUsers == 2

\* ValidateCreateUserRequest
ValidateCreateUserRequest(rq) ==
    IF rq.Username = "" THEN "Username cannot be empty"
    ELSE IF Len(rq.Username) < 4 \/ Len(rq.Username) > 32
         THEN "username must be between 4 and 32 characters"
    ELSE IF rq.Password = <<>> THEN "Password cannot be empty"
    ELSE IF Len(rq.Password) < 8 \/ Len(rq.Password) > 64
         THEN "Password must be between 8 and 64 characters"
    ELSE IF rq.Email = "" THEN "Email cannot be empty"
    ELSE IF rq.Phone = "" THEN "Phone number cannot be empty"
    ELSE "nil"

CreateUserRequests ==
    { [Username |-> "alice", Password |-> PwAlice, Email |-> "a@x.io", Phone |-> "1"],
      [Username |-> "bobby", Password |-> PwAlice \o <<0>> \o PwAlice,
       Email |-> "b@x.io", Phone |-> "2"],
      [Username |-> "bob", Password |-> PwBob, Email |-> "b@x.io", Phone |-> "2"],
      [Username |-> "carol", Password |-> <<97>>, Email |-> "c@x.io", Phone |-> "3"],
      [Username |-> "", Password |-> PwBob, Email |-> "d@x.io", Phone |-> "4"],
      [Username |-> "gemma", Password |-> <<>>, Email |-> "", Phone |-> ""],
      [Username |-> "dave1", Password |-> PwBob, Email |-> "", Phone |-> "4"],
      [Username |-> "erin1", Password |-> PwBob, Email |-> "e@x.io", Phone |-> ""] }

\* User.BeforeCreate without the hashing
BeforeCreate_Plain(m, salt) == m

\* User.BeforeCreate: the password is replaced by its digest
BeforeCreate(m, salt) == [m EXCEPT !.Password = Encrypt(m.Password, salt)]

\* User.AfterCreate hashing the password again before its write
AfterCreate_Rehash(m, ridSalt) ==
    [m EXCEPT !.UserID = New(UserID, m.ID, ridSalt), !.Password = Encrypt(m.Password, 201)]

\* User.AfterCreate: the public identifier is derived from the numeric ID;
\* the record is then written again by tx.Save(m)
AfterCreate(m, ridSalt) == [m EXCEPT !.UserID = New(UserID, m.ID, ridSalt)]

CreateInit ==
    /\ now = 0
    /\ config = UninitConfig
    /\ SrvIdle
    /\ tk = IdleTk /\ pw = IdlePw /\ users = {} /\ posts = {} /\ pcr = IdlePcr /\ cr = IdleCr
    /\ \E salt \in Salts : rc = [salt |-> salt, made |-> <<>>]

\* create-user is called: the request is validated and the record built
CreateCall ==
    /\ cr.pc = "idle"
    /\ cr.seq <= MaxUsers
    /\ \E rq \in CreateUserRequests :
          LET err == ValidateCreateUserRequest(rq)
          IN  cr' = IF err # "nil"
                    THEN [cr EXCEPT !.pc = "done", !.err = err, !.plain = rq.Password,
                                    !.m = NoUser]
                    ELSE [cr EXCEPT !.pc = "BeforeCreate", !.err = None,
                                    !.plain = rq.Password,
                                    !.m = [NoUser EXCEPT !.Username = rq.Username,
                                                         !.Password = rq.Password]]
    /\ UNCHANGED <<now, config, srv, tk, pw, users, posts, pcr, rc>>

\* the BeforeCreate hook runs
CreateBefore ==
    /\ cr.pc = "BeforeCreate"
    /\ \E salt \in BcryptSalts :
          cr' = [cr EXCEPT !.pc = "insert", !.m = BeforeCreate(cr.m, salt)]
    /\ UNCHANGED <<now, config, srv, tk, pw, users, posts, pcr, rc>>

\* the insert: it fails, or the row is written under the next numeric ID
CreateInsert ==
    /\ cr.pc = "insert"
    /\ \/ /\ cr' = [cr EXCEPT !.pc = "done", !.err = "insert failed"]
          /\ UNCHANGED users
       \/ /\ cr' = [cr EXCEPT !.pc = "AfterCreate", !.seq = @ + 1, !.m.ID = cr.seq]
          /\ users' = users \cup {[cr.m EXCEPT !.ID = cr.seq]}
    /\ UNCHANGED <<now, config, srv, tk, pw, posts, pcr, rc>>

\* the AfterCreate hook runs: the identifier is set and the record saved; when
\* the save fails the hook returns its error and the transaction is undone
CreateAfter ==
    /\ cr.pc = "AfterCreate"
    /\ LET m == AfterCreate(cr.m, rc.salt)
           others == {u \in users : u.ID # cr.m.ID}
       IN  \/ /\ users' = others \cup {m}
              /\ cr' = [cr EXCEPT !.pc = "done", !.m = m, !.err = "nil",
                                  !.saves = @ + 1]
           \/ /\ users' = others
              /\ cr' = [cr EXCEPT !.pc = "done", !.m = m, !.err = "save failed",
                                  !.saves = @ + 1]
    /\ UNCHANGED <<now, config, srv, tk, pw, posts, pcr, rc>>

\* create-user has returned
CreateReturn ==
    /\ cr.pc = "done"
    /\ cr' = [cr EXCEPT !.pc = "idle", !.m = NoUser, !.plain = <<>>, !.err = None,
                        !.saves = 0]
    /\ UNCHANGED <<now, config, srv, tk, pw, users, posts, pcr, rc>>

\* the titles of the posts created
Titles == {"hello", "again"}

\* Post.AfterCreate with the prefix of the users
PostAfterCreate_UserPrefix(m, ridSalt) == [m EXCEPT !.PostID = New(UserID, m.ID, ridSalt)]

\* Post.AfterCreate: the public identifier is derived from the numeric ID;
\* the record is then written again by tx.Save(m)
PostAfterCreate(m, ridSalt) == [m EXCEPT !.PostID = New(PostID, m.ID, ridSalt)]

\* create-post is called: the record is built
CreatePostCall ==
    /\ pcr.pc = "idle"
    /\ pcr.seq <= MaxUsers
    /\ \E t \in Titles :
          pcr' = [pcr EXCEPT !.pc = "insert", !.err = None, !.m = [NoPost EXCEPT !.Title = t]]
    /\ UNCHANGED <<now, config, srv, tk, pw, users, posts, cr, rc>>

\* the insert: it fails, or the row is written under the next numeric ID
CreatePostInsert ==
    /\ pcr.pc = "insert"
    /\ \/ /\ pcr' = [pcr EXCEPT !.pc = "done", !.err = "insert failed"]
          /\ UNCHANGED posts
       \/ /\ pcr' = [pcr EXCEPT !.pc = "AfterCreate", !.seq = @ + 1, !.m.ID = pcr.seq]
          /\ posts' = posts \cup {[pcr.m EXCEPT !.ID = pcr.seq]}
    /\ UNCHANGED <<now, config, srv, tk, pw, users, cr, rc>>

\* the AfterCreate hook runs: the identifier is set and the record saved; when
\* the save fails the hook returns its error and the transaction is undone
CreatePostAfter ==
    /\ pcr.pc = "AfterCreate"
    /\ LET m == PostAfterCreate(pcr.m, rc.salt)
           others == {q \in posts : q.ID # pcr.m.ID}
       IN  \/ /\ posts' = others \cup {m}
              /\ pcr' = [pcr EXCEPT !.pc = "done", !.m = m, !.err = "nil",
                                    !.saves = @ + 1]
           \/ /\ posts' = others
              /\ pcr' = [pcr EXCEPT !.pc = "done", !.m = m, !.err = "save failed",
                                    !.saves = @ + 1]
    /\ UNCHANGED <<now, config, srv, tk, pw, users, cr, rc>>

\* create-post has returned
CreatePostReturn ==
    /\ pcr.pc = "done"
    /\ pcr' = [pcr EXCEPT !.pc = "idle", !.m = NoPost, !.err = None, !.saves = 0]
    /\ UNCHANGED <<now, config, srv, tk, pw, users, posts, cr, rc>>

CreateNext ==
    \/ CreateCall \/ CreateBefore \/ CreateInsert \/ CreateAfter \/ CreateReturn
    \/ CreatePostCall \/ CreatePostInsert \/ CreatePostAfter \/ CreatePostReturn

SpecCreate == CreateInit /\ [][CreateNext]_vars

(***************************************************************************)
(* Properties of the server specification.                                 *)
(***************************************************************************)
Range(f) == {f[i] : i \in DOMAIN f}

\* the gate is in the chain and stands before the chain's last handler
GateFirst(chain) ==
    \E i \in 1..Len(chain) : chain[i] = "Authn" /\ i < Len(chain)

\* a token that is well formed and carries a signature made over its own
\* claims with a key the server is configured with
Genuine(tok) ==
    /\ tok.wf
    /\ \E c \in Configs : tok.sig = Signature(c.JWTKey, tok.name, tok.sub, tok.iat, tok.exp)

\* what holds of every request on a gated route, at every moment
GateState(q) ==
    /\ q.parses <= 1
    /\ q.gate = "reject" => q.ran = None /\ q.status = "Unauthorized" /\ q.st = "done"
    /\ q.ran # None =>
          /\ q.gate = "pass"
          /\ q.parses = 1
          /\ q.header # <<>>
          /\ q.ctx = q.header[1].sub
          /\ q.ranCtx = q.header[1].sub

\* the gate's verdict is that of parse on the request's token, at that moment
GateVerdict(q, p, cfg, t) ==
    (q.gate = None /\ p.gate # None) =>
        /\ p.gate = "pass" <=> (q.header # <<>> /\ Parse(cfg, q.header[1], t).err = None)
        /\ p.parses = IF q.header = <<>> THEN 0 ELSE 1

\* C1: on a route wrapped by the authentication gate, a request whose bearer
\* token is absent or fails to parse is answered Unauthorized and its handler
\* never runs; the handler runs only after parse succeeded, with the context
\* carrying the subject of the token's claims; parse is evaluated once.
C1_GateAdmitsOnlyParsed ==
    /\ [](\A r \in Requests : "Authn" \in Range(req[r].chain) => GateState(req[r]))
    /\ [][\A r \in Requests :
             "Authn" \in Range(req[r].chain) => GateVerdict(req[r], req'[r], config, now)]_vars

C1_Witness ==
    \E r \in Requests :
        /\ "Authn" \in Range(req[r].chain)
        /\ req[r].ran = "RefreshToken"
        /\ req[r].gate = "pass"
        /\ req[r].ranCtx = "user-w6irkg"

ProtectedRoutes ==
    { <<"PUT", <<"refresh-token">>>>,
      <<"PUT", <<"v1", "users", ":userID", "change-password">>>>,
      <<"PUT", <<"v1", "users", ":userID">>>>,
      <<"DELETE", <<"v1", "users", ":userID">>>>,
      <<"GET", <<"v1", "users", ":userID">>>>,
      <<"GET", <<"v1", "users">>>>,
      <<"POST", <<"v1", "posts">>>>,
      <<"PUT", <<"v1", "posts", ":postID">>>>,
      <<"DELETE", <<"v1", "posts">>>>,
      <<"GET", <<"v1", "posts", ":postID">>>>,
      <<"GET", <<"v1", "posts">>>> }

OpenRoutes ==
    { <<"POST", <<"login">>>>, <<"POST", <<"v1", "users">>>>, <<"GET", <<"healthz">>>> }

RouteTableGated(e) ==
    /\ {<<x.method, x.path>> : x \in {y \in e.routes : GateFirst(y.chain)}} = ProtectedRoutes
    /\ {<<x.method, x.path>> : x \in {y \in e.routes : "Authn" \notin Range(y.chain)}}
          = OpenRoutes
    /\ "Authn" \notin Range(e.allNoRoute)
    /\ e.allNoRoute # <<>>

\* C2: in the route table InstallRESTAPI builds, the protected routes
\* (refresh-token, the users routes registered after Use, the posts routes)
\* have the gate before their handler; login, create-user, healthz and the
\* 404 handler are reached without it; a request on an open route reaches its
\* handler without the gate having run.
C2_ProtectedRoutesGated ==
    /\ server # <<>> => RouteTableGated(server[1])
    /\ \A r \in Requests :
          /\ <<req[r].method, req[r].path>> \in OpenRoutes \/ req[r].ran = "NotFound"
                => req[r].gate = None
          /\ req[r].ran \in {"CreateUser", "Login", "Healthz", "NotFound"}
                => req[r].gate = None /\ req[r].parses = 0

C2_Witness ==
    \E r \in Requests :
        /\ req[r].ran = "CreateUser"
        /\ req[r].header = <<>>
        /\ req[r].status = "OK"

\* C3: token.Init has completed before any route is registered, before the
\* server exists and before Run serves; no request, gate, parse or issue
\* sees the configuration unset.
C3_InitBeforeUse ==
    /\ (boot.engine # <<>> /\ boot.engine[1].routes # {}) => config.set
    /\ server # <<>> => config.set
    /\ running => config.set
    /\ \A r \in Requests : req[r].st # "idle" => config.set /\ config # UninitConfig
    /\ issued # {} => config.set

C3_Witness ==
    /\ running
    /\ calls = 1
    /\ \E r \in Requests : req[r].gate = "pass" /\ req[r].out # <<>>

\* C4: once a request has been accepted, nothing changes the token
\* configuration (key, claim name, lifetime) again.  NewServer calls
\* token.Init on every invocation, so this holds exactly when a re-invocation
\* of init keeps the configuration; it fails on the overwriting outcome.
C4_ConfigNeverChanges == [][served => config' = config]_vars

C5_IssueThenParse ==
    (tk.res # <<>> /\ tk.shown = tk.tok) =>
        LET t == tk.at
            L == tk.life
            elapsed == tk.resAt - tk.at
            res == tk.res[1]
        IN  /\ (0 <= elapsed /\ elapsed < L) =>
                  /\ res.err = None
                  /\ res.claims = [sub |-> tk.uid, iat |-> t, exp |-> t + L]
            /\ elapsed > L => res.err = "Expired"
            /\ (~tk.override /\ config.expiration = DefaultExpiration) =>
                  /\ elapsed = 2 * Hour - 1 => res.err = None
                  /\ elapsed = 2 * Hour + 1 => res.err = "Expired"

C5_Witness ==
    /\ tk.res # <<>>
    /\ tk.shown = tk.tok
    /\ ~tk.override
    /\ tk.at > 0
    /\ tk.resAt - tk.at = 2 * Hour - 1
    /\ tk.res[1].err = None
    /\ tk.res[1].claims.sub = "user-w6irkh"

\* C6: parse returns the claims or exactly one of MalformedToken,
\* InvalidSignature, Expired, decided in that order: a malformed token is
\* MalformedToken whatever its signature and expiry, a well-formed token
\* whose signature does not verify is InvalidSignature even when expired,
\* and Expired is only for a well-formed, correctly signed token with
\* now >= expiry.
C6_ParseFailureOrder ==
    tk.res # <<>> =>
        LET p == tk.shown[1]
            res == tk.res[1]
            signed == p.sig = <<config.key, p.name, p.sub, p.iat, p.exp>>
        IN  /\ res.err \in {None, "MalformedToken", "InvalidSignature", "Expired"}
            /\ res.err = "MalformedToken" <=> ~p.wf
            /\ res.err = "InvalidSignature" <=> (p.wf /\ ~signed)
            /\ res.err = "Expired" <=> (p.wf /\ signed /\ tk.resAt >= p.exp)
            /\ res.err = None <=> (p.wf /\ signed /\ tk.resAt < p.exp)
            /\ res.err = None => res.claims = [sub |-> p.sub, iat |-> p.iat, exp |-> p.exp]

C6_Witness ==
    /\ tk.res # <<>>
    /\ tk.shown[1].wf
    /\ tk.shown[1].sig # tk.tok[1].sig
    /\ tk.resAt > tk.shown[1].exp
    /\ tk.res[1].err = "InvalidSignature"

(***************************************************************************)
(* Properties of the hasher specification.                                 *)
(***************************************************************************)
\* C8: for passwords p1, p2 with d = Encrypt(p1): Compare(d, p2) is nil when
\* p1 = p2 and a mismatch error when p1 # p2.
C8_CompareIffEqual ==
    pw.result # None =>
        IF pw.src = pw.cand[1]
        THEN pw.result = "nil"
        ELSE pw.result = "ErrMismatchedHashAndPassword"

(***************************************************************************)
(* Properties of the identifier specification.                             *)
(***************************************************************************)
Alnum ==
    { "a", "b", "c", "d", "e", "f", "g", "h", "i", "j", "k", "l", "m",
      "n", "o", "p", "q", "r", "s", "t", "u", "v", "w", "x", "y", "z",
      "A", "B", "C", "D", "E", "F", "G", "H", "I", "J", "K", "L", "M",
      "N", "O", "P", "Q", "R", "S", "T", "U", "V", "W", "X", "Y", "Z",
      "0", "1", "2", "3", "4", "5", "6", "7", "8", "9" }

\* C10: New is a function of type, counter and salt: calls with the same
\* arguments under the same salt return the same string; the string is the
\* type prefix, "-", and six characters of the 62 alphanumerics; New(42) and
\* New(43) differ.
C10_NewFormat ==
    /\ \A i \in 1..Len(rc.made) :
          LET m == rc.made[i]
          IN  /\ Len(m.id) = 2 + 6
              /\ m.id[1] = m.type
              /\ m.id[1] \in {"user", "post"}
              /\ m.id[2] = "-"
              /\ \A k \in 3..Len(m.id) : m.id[k] \in Alnum
    /\ \A i, j \in 1..Len(rc.made) :
          LET m == rc.made[i]
              n == rc.made[j]
          IN  /\ (m.type = n.type /\ m.counter = n.counter) => m.id = n.id
              /\ (m.type = n.type /\ m.counter = 42 /\ n.counter = 43) => m.id # n.id

C10_Witness ==
    /\ Len(rc.made) = 2
    /\ rc.made[1] = [type |-> "user", counter |-> 42, id |-> New("user", 42, rc.salt)]
    /\ rc.made[2].type = "user"
    /\ rc.made[2].counter = 43
    /\ rc.salt # 0

\* on a counter that fits the integers, New on limbs is New
NewWideAgrees ==
    \A i \in 1..Len(rc.made) :
        LET m == rc.made[i]
        IN  m.counter[3] = 0 => m.id = New(m.type, m.counter[1], rc.salt)

\* C11: under one salt, two calls of New with different (type, counter)
\* pairs return different identifiers; in particular New is injective on the
\* counters of one type.
C11_NewInjective ==
    \A i, j \in 1..Len(rc.made) :
        LET m == rc.made[i]
            n == rc.made[j]
        IN  (m.type # n.type \/ m.counter # n.counter) => m.id # n.id

\* identifiers of different types never coincide
NewTypesApart ==
    \A i, j \in 1..Len(rc.made) :
        rc.made[i].type # rc.made[j].type => rc.made[i].id # rc.made[j].id

(***************************************************************************)
(* Properties of the start-up specification.                               *)
(***************************************************************************)
\* a server exists, is being built or serves
Serving ==
    \/ boot.pc # 0
    \/ config.set
    \/ server # <<>>
    \/ running
    \/ \E r \in Requests : req[r].st # "idle"

\* nothing is built, initialised or served under a key shorter than six
\* bytes, the empty key among them, nor after Validate returned an error
NoServingWithoutKey ==
    /\ boot.pc # 0 => boot.cfg[1].JWTKey # "" /\ GoLen(boot.cfg[1].JWTKey) >= 6
    /\ config.set => config.key # "" /\ GoLen(config.key) >= 6
    /\ Serving => opts.err = "nil" /\ opts.o.JWTKey # ""
    /\ opts.pc = "exit" => ~Serving /\ calls = 0 /\ issued = {}

IsDigest(text) ==
    /\ Len(text) = 3 + KeyScheduleBytes
    /\ SubSeq(text, 1, 1) = DigestPrefix

\* C9: the stored password is never the plaintext: every row written holds a
\* digest, and after a successful create-user the stored Password is the
\* digest of the request's plaintext, hashed once, so that Compare(stored,
\* plaintext) succeeds.
C9_StoredPasswordIsDigest ==
    /\ \A u \in users : IsDigest(u.Password) /\ u.Password \notin Passwords
    /\ (cr.pc \in {"AfterCreate", "done"} /\ cr.err \in {None, "nil"}) =>
          \E u \in users :
              /\ u.ID = cr.m.ID
              /\ u.Password # cr.plain
              /\ \E salt \in BcryptSalts : u.Password = Encrypt(cr.plain, salt)
              /\ Compare(u.Password, cr.plain) = "nil"

C9_Witness ==
    /\ cr.pc = "done"
    /\ cr.err = "nil"
    /\ cr.m.ID = 2
    /\ \E u \in users :
          /\ u.ID = 2
          /\ u.UserID = New(UserID, 2, rc.salt)
          /\ Compare(u.Password, cr.plain) = "nil"

\* a create-user that is past its insert, and one that has reported success
UserInserted == cr.pc = "AfterCreate"
UserCreated == cr.pc = "done" /\ cr.err = "nil"
\* a create-post that is past its insert, and one that has reported success
PostInserted == pcr.pc = "AfterCreate"
PostCreated == pcr.pc = "done" /\ pcr.err = "nil"

\* C13: creation has two phases.  After the insert the row exists under its
\* numeric ID and has no public identifier yet; AfterCreate then sets the
\* identifier to New(ID) with the prefix of the record's own type and writes
\* the record once more.  A create that reports success has stored the record
\* with identifier New(its ID); when the second write fails, its error is what
\* the create returns, after one attempt, and no success is reported.
C13_TwoPhaseCreate ==
    /\ UserInserted =>
          /\ cr.m.ID >= 1 /\ cr.saves = 0
          /\ \E u \in users : u.ID = cr.m.ID /\ u.UserID = <<>>
    /\ PostInserted =>
          /\ pcr.m.ID >= 1 /\ pcr.saves = 0
          /\ \E q \in posts : q.ID = pcr.m.ID /\ q.PostID = <<>>
    /\ UserCreated =>
          /\ cr.saves = 1
          /\ \E u \in users :
                /\ u.ID = cr.m.ID
                /\ u.UserID = New(UserID, u.ID, rc.salt)
                /\ u.UserID[1] = "user" /\ u.UserID[2] = "-"
    /\ PostCreated =>
          /\ pcr.saves = 1
          /\ \E q \in posts :
                /\ q.ID = pcr.m.ID
                /\ q.PostID = New(PostID, q.ID, rc.salt)
                /\ q.PostID[1] = "post" /\ q.PostID[2] = "-"
    /\ cr.pc = "done" /\ cr.saves > 0 /\ (\A u \in users : u.ID # cr.m.ID \/ u.UserID = <<>>)
          => cr.err = "save failed" /\ cr.saves = 1
    /\ pcr.pc = "done" /\ pcr.saves > 0 /\ (\A q \in posts : q.ID # pcr.m.ID \/ q.PostID = <<>>)
          => pcr.err = "save failed" /\ pcr.saves = 1

\* a user and a post were created with success, and a later create-post
\* returned the error of its failed second write
C13_Witness ==
    /\ \E u \in users : u.ID = 1 /\ u.UserID = New(UserID, 1, rc.salt)
    /\ \E q \in posts : q.ID = 1 /\ q.PostID = New(PostID, 1, rc.salt)
    /\ pcr.pc = "done"
    /\ pcr.m.ID = 2
    /\ pcr.err = "save failed"
    /\ \A q \in posts : q.ID # 2

=============================================================================
